---- MODULE Spec2Model ----
(***************************************************************************)
(* WIFI-QR (src/src/main.rs): the descriptor builder assemble_qr_string,   *)
(* the matrix renderer get_bool_matrix_as_string and the pipeline of main. *)
(*                                                                         *)
(* A Rust String is modelled as a sequence of characters, each character a *)
(* one-character TLA+ string.  Option<T> is modelled as a sequence of      *)
(* length at most one: None is << >> and Some(x) is << x >>.               *)
(***************************************************************************)
EXTENDS Integers, Sequences, FiniteSets, TLC

VARIABLES
    args,        \* the parsed Args value (ssid, psw, sec, hidden, ecc)
    pc,          \* position of main, or of the renderer's caller
    qr_string,   \* main's first qr_code: the descriptor returned by assemble_qr_string
    enc_calls,   \* the calls made to qrcode_generator::to_matrix, in order, each with
                 \* its arguments and whether it returned Ok
    qr_code,     \* main's second qr_code: the module matrix
    stdout,      \* what print! has written, one entry per write
    panic_msg,   \* the message of the panic that ended the process, if any
    exit_code,   \* the exit status of the process: None while it runs
    mat,         \* the matrix handed to get_bool_matrix_as_string by a direct caller
    results      \* the texts returned to that caller, one per call

vars == << args, pc, qr_string, enc_calls, qr_code, stdout, panic_msg, exit_code,
           mat, results >>

-----------------------------------------------------------------------------
(* Bounds of the model *)

\* texts are concatenations of at most MaxParts parts
MaxParts == 2
\* the encoder returns square matrices of side 0..MaxSide
MaxSide == 1
\* matrices handed directly to the renderer have at most MaxRows rows ...
MaxRows == 2
\* ... of at most MaxCols cells each (rows of unequal length included)
MaxCols == 2
\* the renderer's direct caller renders the same matrix at most MaxRenders times
MaxRenders == 2

-----------------------------------------------------------------------------
(* Types *)

None == << >>
Some(x) == << x >>
is_none(o) == o = << >>
is_some(o) == o # << >>
unwrap(o) == o[1]

SecurityTypes == {"Wep", "Wpa", "Wpa2", "Wpa3"}
ECCLevel == {"Low", "Medium", "Quartile", "High"}

\* the building blocks of the texts the model feeds in: an ordinary character
\* and the reserved sequence that separates the name from the password
Parts == { << "a" >>, << ";", "P", ":" >> }

RECURSIVE TextsUpTo(_)
TextsUpTo(n) ==
    IF n = 0 THEN { << >> }
    ELSE LET T == TextsUpTo(n - 1) IN T \cup { t \o p : t \in T, p \in Parts }

Texts == TextsUpTo(MaxParts)

Args == [ ssid : Texts,
          psw : {None} \cup { Some(t) : t \in Texts },
          sec : {None} \cup { Some(s) : s \in SecurityTypes },
          hidden : BOOLEAN,
          ecc : ECCLevel ]

RECURSIVE SeqsUpTo(_, _)
SeqsUpTo(S, n) ==
    IF n = 0 THEN { << >> }
    ELSE LET T == SeqsUpTo(S, n - 1) IN T \cup { Append(t, x) : t \in T, x \in S }

\* every Vec<Vec<bool>> within the bounds, rows of unequal length included
Matrices == SeqsUpTo(SeqsUpTo(BOOLEAN, MaxCols), MaxRows)

\* the matrices the encoder may return: square, side 0..MaxSide
EncoderMatrices ==
    { m \in SeqsUpTo(SeqsUpTo(BOOLEAN, MaxSide), MaxSide) :
        \A i \in 1..Len(m) : Len(m[i]) = Len(m) }

-----------------------------------------------------------------------------
(* Formatting *)

\* (variant: the protocol's upper-case names instead of the variants' names)
SecurityTypes_fmt_Upper(s) ==
    CASE s = "Wep"  -> << "W", "E", "P" >>
      [] s = "Wpa"  -> << "W", "P", "A" >>
      [] s = "Wpa2" -> << "W", "P", "A", "2" >>
      [] s = "Wpa3" -> << "W", "P", "A", "3" >>

\* impl Display for SecurityTypes: write!(f, "{:?}", self), the variant's name
SecurityTypes_fmt(s) ==
    CASE s = "Wep"  -> << "W", "e", "p" >>
      [] s = "Wpa"  -> << "W", "p", "a" >>
      [] s = "Wpa2" -> << "W", "p", "a", "2" >>
      [] s = "Wpa3" -> << "W", "p", "a", "3" >>

\* Display for bool, as format! applies it to args.hidden
bool_fmt(b) ==
    IF b THEN << "t", "r", "u", "e" >> ELSE << "f", "a", "l", "s", "e" >>

\* the template from position from on, its k-th and later "{}" replaced by the
\* k-th and later arguments
RECURSIVE format_from(_, _, _, _)
format_from(template, fargs, from, k) ==
    LET holes == { i \in from..Len(template) : template[i] = "{}" }
    IN  IF holes = {} THEN SubSeq(template, from, Len(template))
        ELSE LET i == CHOOSE h \in holes : \A g \in holes : h <= g
             IN  SubSeq(template, from, i - 1) \o fargs[k]
                 \o format_from(template, fargs, i + 1, k + 1)

\* format!/panic!: the template's literal characters in order, each "{}"
\* replaced by the next argument
format(template, fargs) == format_from(template, fargs, 1, 1)

\* (variant: a single closing semicolon)
QrTemplate_SingleEnd ==
    << "W", "I", "F", "I", ":", "T", ":", "{}", ";", "S", ":", "{}", ";", "P", ":", "{}",
       ";", "H", ":", "{}", ";" >>

\* the template of the descriptor
QrTemplate ==
    << "W", "I", "F", "I", ":", "T", ":", "{}", ";", "S", ":", "{}", ";", "P", ":", "{}",
       ";", "H", ":", "{}", ";", ";" >>

\* the template of the panic raised for a standard without a password
PanicTemplate ==
    << "N", "o", " ", "p", "a", "s", "s", "w", "o", "r", "d", " ", "w", "a", "s", " ",
       "p", "r", "o", "v", "i", "d", "e", "d", ",", " ", "b", "u", "t", " ", "a", " ",
       "s", "e", "c", "u", "r", "i", "t", "y", "-", "s", "t", "a", "n", "d", "a", "r",
       "d", " ", "w", "a", "s", " ", "p", "r", "o", "v", "i", "d", "e", "d", "!", " ",
       "P", "r", "o", "v", "i", "d", "e", "d", " ", "s", "e", "c", "u", "r", "i", "t",
       "y", "-", "s", "t", "a", "n", "d", "a", "r", "d", " ", "{}", "." >>

-----------------------------------------------------------------------------
(* assemble_qr_string *)

\* let psw = match args.psw.clone() { Some(x) => x, None => String::new() }
psw_or_empty(a) == IF is_some(a.psw) THEN unwrap(a.psw) ELSE << >>

\* (variant: WPA assumed)
DefaultSec_Wpa == "Wpa"

\* the security standard assumed when a password is given without one
DefaultSec == "Wpa2"

\* (variant: the panicking branch missing, an open network emitted instead)
resolve_sec_NoPanic(a, psw) ==
    IF is_none(a.sec) /\ psw # << >>
    THEN [ panicked |-> FALSE, sec |-> SecurityTypes_fmt(DefaultSec) ]
    ELSE IF is_none(a.sec) \/ psw = << >>
    THEN [ panicked |-> FALSE, sec |-> << >> ]
    ELSE [ panicked |-> FALSE, sec |-> SecurityTypes_fmt(unwrap(a.sec)) ]

\* (variant: the default applied whenever no standard is given)
resolve_sec_OpenDefault(a, psw) ==
    IF is_none(a.sec)
    THEN [ panicked |-> FALSE, sec |-> SecurityTypes_fmt(DefaultSec) ]
    ELSE IF is_some(a.sec) /\ psw = << >>
    THEN [ panicked |-> TRUE,
           msg |-> format(PanicTemplate, << SecurityTypes_fmt(unwrap(a.sec)) >>) ]
    ELSE [ panicked |-> FALSE, sec |-> SecurityTypes_fmt(unwrap(a.sec)) ]

\* the if / else-if chain that sets sec or panics
resolve_sec(a, psw) ==
    IF is_none(a.sec) /\ psw # << >>
    THEN [ panicked |-> FALSE, sec |-> SecurityTypes_fmt(DefaultSec) ]
    ELSE IF is_some(a.sec) /\ psw = << >>
    THEN [ panicked |-> TRUE,
           msg |-> format(PanicTemplate, << SecurityTypes_fmt(unwrap(a.sec)) >>) ]
    ELSE IF is_none(a.sec) /\ psw = << >>
    THEN [ panicked |-> FALSE, sec |-> << >> ]
    ELSE [ panicked |-> FALSE, sec |-> SecurityTypes_fmt(unwrap(a.sec)) ]

\* the result of a call: a panic with its message, or the returned String
assemble_qr_string(a) ==
    LET psw == psw_or_empty(a)
        r == resolve_sec(a, psw)
    IN  IF r.panicked
        THEN [ panicked |-> TRUE, msg |-> r.msg ]
        ELSE [ panicked |-> FALSE,
               value |-> format(QrTemplate, << r.sec, a.ssid, psw, bool_fmt(a.hidden) >>) ]

-----------------------------------------------------------------------------
(* get_bool_matrix_as_string *)

Block == "█"
Space == " "
Newline == "\n"

\* (variant: a single space for a cell that is off)
RECURSIVE render_row_Narrow(_)
render_row_Narrow(x) ==
    IF x = << >> THEN << >>
    ELSE (IF Head(x) THEN << Block, Block >> ELSE << Space >>)
         \o render_row_Narrow(Tail(x))

\* the inner loop: output += if y {"██"} else {"  "}
RECURSIVE render_row(_)
render_row(x) ==
    IF x = << >> THEN << >>
    ELSE (IF Head(x) THEN << Block, Block >> ELSE << Space, Space >>)
         \o render_row(Tail(x))

\* (variant: the line terminator used as a separator between rows)
RECURSIVE get_bool_matrix_as_string_Joined(_)
get_bool_matrix_as_string_Joined(m) ==
    IF m = << >> THEN << >>
    ELSE IF Tail(m) = << >> THEN render_row(Head(m))
    ELSE render_row(Head(m)) \o << Newline >> \o get_bool_matrix_as_string_Joined(Tail(m))

\* the outer loop: the row's glyphs, then output += "\n"
RECURSIVE get_bool_matrix_as_string(_)
get_bool_matrix_as_string(m) ==
    IF m = << >> THEN << >>
    ELSE render_row(Head(m)) \o << Newline >> \o get_bool_matrix_as_string(Tail(m))

-----------------------------------------------------------------------------
(* main *)

\* the match on args.ecc: the level handed to qrcode_generator::to_matrix
to_QrCodeEcc(e) ==
    CASE e = "Low"      -> "QrCodeEcc::Low"
      [] e = "Medium"   -> "QrCodeEcc::Medium"
      [] e = "Quartile" -> "QrCodeEcc::Quartile"
      [] e = "High"     -> "QrCodeEcc::High"

\* the exit status of a Rust process whose main returned
SuccessExitCode == 0

\* (variant: a panic that ends the process with the status of a success)
PanicExitCode_Zero == SuccessExitCode

\* the exit status of a Rust process whose main thread panicked
PanicExitCode == 101

\* the message of the panic raised by .unwrap() on the encoder's Err; its text
\* comes from the encoder and is kept as one opaque piece
UnwrapPanicMsg == << "called Result::unwrap() on an Err value" >>

\* what qrcode_generator::to_matrix may return: Err, or Ok of a matrix
EncoderOutcomes ==
    { [ ok |-> FALSE ] } \cup { [ ok |-> TRUE, matrix |-> m ] : m \in EncoderMatrices }

\* let args = Args::parse(): any Args value; nothing has run yet
Init ==
    /\ args \in Args
    /\ pc = "assemble"
    /\ qr_string = << >>
    /\ enc_calls = << >>
    /\ qr_code = << >>
    /\ stdout = << >>
    /\ panic_msg = None
    /\ exit_code = None
    /\ mat = << >>
    /\ results = << >>

\* let qr_code: String = assemble_qr_string(&args);
AssembleStep ==
    /\ pc = "assemble"
    /\ LET r == assemble_qr_string(args)
       IN  IF r.panicked
           THEN /\ panic_msg' = Some(r.msg)
                /\ exit_code' = Some(PanicExitCode)
                /\ pc' = "exited"
                /\ UNCHANGED qr_string
           ELSE /\ qr_string' = r.value
                /\ pc' = "encode"
                /\ UNCHANGED << panic_msg, exit_code >>
    /\ UNCHANGED << args, enc_calls, qr_code, stdout, mat, results >>

\* (variant: the encoder's Err replaced by an empty matrix, as unwrap_or_default)
EncodeStep_KeepGoing ==
    /\ pc = "encode"
    /\ \E out \in EncoderOutcomes :
          /\ enc_calls' = Append(enc_calls, [ text |-> qr_string,
                                              ecc |-> to_QrCodeEcc(args.ecc),
                                              ok |-> out.ok ])
          /\ qr_code' = IF out.ok THEN out.matrix ELSE << >>
          /\ pc' = "print"
    /\ UNCHANGED << args, qr_string, stdout, panic_msg, exit_code, mat, results >>

\* let qr_code: Vec<Vec<bool>> = qrcode_generator::to_matrix(qr_code, match ..).unwrap();
EncodeStep ==
    /\ pc = "encode"
    /\ \E out \in EncoderOutcomes :
          /\ enc_calls' = Append(enc_calls, [ text |-> qr_string,
                                              ecc |-> to_QrCodeEcc(args.ecc),
                                              ok |-> out.ok ])
          /\ IF out.ok
             THEN /\ qr_code' = out.matrix
                  /\ pc' = "print"
                  /\ UNCHANGED << panic_msg, exit_code >>
             ELSE /\ panic_msg' = Some(UnwrapPanicMsg)
                  /\ exit_code' = Some(PanicExitCode)
                  /\ pc' = "exited"
                  /\ UNCHANGED qr_code
    /\ UNCHANGED << args, qr_string, stdout, mat, results >>

\* print!("{}", get_bool_matrix_as_string(qr_code));
PrintStep ==
    /\ pc = "print"
    /\ stdout' = Append(stdout, get_bool_matrix_as_string(qr_code))
    /\ pc' = "return"
    /\ UNCHANGED << args, qr_string, enc_calls, qr_code, panic_msg, exit_code, mat, results >>

\* the closing brace of main: the process ends normally
ReturnStep ==
    /\ pc = "return"
    /\ exit_code' = Some(SuccessExitCode)
    /\ pc' = "exited"
    /\ UNCHANGED << args, qr_string, enc_calls, qr_code, stdout, panic_msg, mat, results >>

Next == AssembleStep \/ EncodeStep \/ PrintStep \/ ReturnStep

Spec == Init /\ [][Next]_vars

\* main is a single thread that runs to its end: a statement that can run does
FairSpec == Spec /\ WF_vars(Next)

-----------------------------------------------------------------------------
(* get_bool_matrix_as_string called directly, as the unit test does *)

\* the Args value of the unit tests that do not look at it
IdleArgs ==
    [ ssid |-> << >>, psw |-> None, sec |-> None, hidden |-> FALSE, ecc |-> "Low" ]

RenderInit ==
    /\ args = IdleArgs
    /\ pc = "call_render"
    /\ qr_string = << >>
    /\ enc_calls = << >>
    /\ qr_code = << >>
    /\ stdout = << >>
    /\ panic_msg = None
    /\ exit_code = None
    /\ mat \in Matrices
    /\ results = << >>

\* get_bool_matrix_as_string(mat.clone()), the returned String kept by the caller
RenderCall ==
    /\ pc = "call_render"
    /\ Len(results) < MaxRenders
    /\ results' = Append(results, get_bool_matrix_as_string(mat))
    /\ UNCHANGED << args, pc, qr_string, enc_calls, qr_code, stdout, panic_msg,
                    exit_code, mat >>

RenderNext == RenderCall

RenderSpec == RenderInit /\ [][RenderNext]_vars

-----------------------------------------------------------------------------
(* What the claims speak of, read off the state *)

\* the text of the password: the empty text when it is absent
PswText(a) == IF a.psw = None THEN << >> ELSE a.psw[1]

\* the display forms of the security standards, as the claims list them
DisplayForm ==
    [ Wep |-> << "W", "e", "p" >>, Wpa |-> << "W", "p", "a" >>,
      Wpa2 |-> << "W", "p", "a", "2" >>, Wpa3 |-> << "W", "p", "a", "3" >> ]

\* the literal text of the hidden flag
HiddenText(a) ==
    IF a.hidden THEN << "t", "r", "u", "e" >> ELSE << "f", "a", "l", "s", "e" >>

\* the descriptor with security field sec for the credentials a
Descriptor(sec, a) ==
    << "W", "I", "F", "I", ":", "T", ":" >> \o sec \o << ";", "S", ":" >> \o a.ssid
    \o << ";", "P", ":" >> \o PswText(a) \o << ";", "H", ":" >> \o HiddenText(a)
    \o << ";", ";" >>

\* a descriptor's security field: what stands between WIFI:T: and the first ;
SecField(d) ==
    LET semis == { i \in 8..Len(d) : d[i] = ";" }
        first == CHOOSE i \in semis : \A j \in semis : i <= j
    IN  SubSeq(d, 8, first - 1)

\* whether d opens with WIFI:T:, a field free of ; and then ;S:
WellOpened(d) ==
    /\ Len(d) >= 10
    /\ SubSeq(d, 1, 7) = << "W", "I", "F", "I", ":", "T", ":" >>
    /\ \E i \in 8..(Len(d) - 2) : SubSeq(d, i, i + 2) = << ";", "S", ":" >>
    /\ LET n == Len(SecField(d)) IN SubSeq(d, 8 + n, 10 + n) = << ";", "S", ":" >>

\* assemble_qr_string has been called and has returned a descriptor
AssembleReturned == pc = "encode" \/ enc_calls # << >>
\* assemble_qr_string has been called and has panicked
AssemblePanicked == pc = "exited" /\ enc_calls = << >>

-----------------------------------------------------------------------------
(* C1 *)

C1_Case == args.sec # None /\ args.psw = None

\* C1: once assemble_qr_string has run on credentials with a security standard
\* and no password, it has failed: no descriptor was returned, the process was
\* stopped by a panic, and the panic's message ends with the display form of
\* the given standard followed by a full stop.
C1_ProtectedWithoutPasswordFails ==
    (C1_Case /\ pc # "assemble") =>
        /\ AssemblePanicked
        /\ qr_string = << >>
        /\ panic_msg # None
        /\ LET msg == panic_msg[1]
               tok == DisplayForm[args.sec[1]]
           IN  /\ Len(msg) > Len(tok) + 2
               /\ SubSeq(msg, Len(msg) - Len(tok) - 1, Len(msg))
                    = << " " >> \o tok \o << "." >>

C1_Witness ==
    /\ C1_Case /\ pc = "exited"
    /\ args.sec = << "Wpa3" >> /\ args.ssid # << >> /\ args.hidden

-----------------------------------------------------------------------------
(* C2 *)

C2_Case == args.sec = None /\ args.psw # None /\ PswText(args) # << >>

\* C2 as stated: with no security standard and a non-empty password the build
\* succeeds and the security field is exactly WPA2.
C2_Original ==
    (C2_Case /\ pc # "assemble") =>
        /\ AssembleReturned
        /\ WellOpened(qr_string)
        /\ SecField(qr_string) = << "W", "P", "A", "2" >>

\* C2 as amended: with no security standard and a non-empty password the build
\* succeeds and the security field is exactly Wpa2, the display form of WPA2.
C2_DefaultsToWpa2 ==
    (C2_Case /\ pc # "assemble") =>
        /\ AssembleReturned
        /\ WellOpened(qr_string)
        /\ SecField(qr_string) = << "W", "p", "a", "2" >>

C2_Witness ==
    /\ C2_Case /\ pc = "encode"
    /\ args.ssid # << >> /\ args.hidden /\ Len(PswText(args)) > 1

-----------------------------------------------------------------------------
(* C3 *)

C3_OriginalCase == args.sec # None /\ args.psw # None
C3_Case == C3_OriginalCase /\ PswText(args) # << >>

\* C3 as stated: with a security standard and a password, the empty text
\* included, the build succeeds and the security field is the display form of
\* the given standard.
C3_Original ==
    (C3_OriginalCase /\ pc # "assemble") =>
        /\ AssembleReturned
        /\ WellOpened(qr_string)
        /\ SecField(qr_string) = DisplayForm[args.sec[1]]

\* C3 as amended: with a security standard and a non-empty password the build
\* succeeds and the security field is the display form of the given standard,
\* never another standard's and never the empty text.
C3_GivenStandardEmitted ==
    (C3_Case /\ pc # "assemble") =>
        /\ AssembleReturned
        /\ WellOpened(qr_string)
        /\ SecField(qr_string) = DisplayForm[args.sec[1]]
        /\ SecField(qr_string) # << >>
        /\ \A s \in SecurityTypes \ {args.sec[1]} : SecField(qr_string) # DisplayForm[s]

C3_Witness ==
    /\ C3_Case /\ pc = "encode"
    /\ args.sec = << "Wep" >> /\ args.ssid # << >>

-----------------------------------------------------------------------------
(* C4 *)

C4_Case == args.sec = None /\ args.psw = None

\* C4: with neither a security standard nor a password the build succeeds and
\* returns WIFI:T:;S:<name>;P:;H:<hidden>;; with both fields empty.
C4_OpenNetwork ==
    (C4_Case /\ pc # "assemble") =>
        /\ AssembleReturned
        /\ qr_string = << "W", "I", "F", "I", ":", "T", ":", ";", "S", ":" >> \o args.ssid
                       \o << ";", "P", ":", ";", "H", ":" >> \o HiddenText(args)
                       \o << ";", ";" >>

C4_Witness ==
    /\ C4_Case /\ pc = "encode"
    /\ args.ssid # << >> /\ ~args.hidden

-----------------------------------------------------------------------------
(* C5 *)

\* C5: a returned descriptor is exactly WIFI:T: sec ;S: name ;P: password ;H:
\* hidden ;; with sec empty or a display form, the name and the password copied
\* unchanged, an absent password empty, hidden the literal true or false.
C5_ExactFormat ==
    AssembleReturned =>
        /\ \E sec \in { << >> } \cup { DisplayForm[s] : s \in SecurityTypes } :
              qr_string = Descriptor(sec, args)
        /\ Len(qr_string) = 18 + Len(SecField(qr_string)) + Len(args.ssid)
                            + Len(PswText(args)) + (IF args.hidden THEN 4 ELSE 5)

C5_Witness ==
    /\ pc = "encode"
    /\ args.sec # None /\ args.hidden
    /\ \E i \in 1..Len(args.ssid) : args.ssid[i] = ";"
    /\ \E i \in 1..Len(PswText(args)) : PswText(args)[i] = ";"

-----------------------------------------------------------------------------
(* C6 *)

\* the number of characters the rows before row i take, terminators included
RECURSIVE RowStart(_, _)
RowStart(m, i) == IF i <= 1 THEN 0 ELSE RowStart(m, i - 1) + 2 * Len(m[i - 1]) + 1

Glyph(cell) == IF cell THEN "█" ELSE " "

\* C6: every returned text is, row after row, two glyph characters per cell
\* (full blocks for true, spaces for false) and then one line terminator;
\* no rows give the empty text and [[true,false],[false,true]] gives
\* "██  \n  ██\n".
C6_RendersEveryCell ==
    \A n \in 1..Len(results) :
        LET out == results[n] IN
        /\ Len(out) = RowStart(mat, Len(mat) + 1)
        /\ \A i \in 1..Len(mat) :
              LET o == RowStart(mat, i) IN
              /\ \A j \in 1..Len(mat[i]) :
                    /\ out[o + 2 * j - 1] = Glyph(mat[i][j])
                    /\ out[o + 2 * j] = Glyph(mat[i][j])
              /\ out[o + 2 * Len(mat[i]) + 1] = "\n"
        /\ (mat = << >> => out = << >>)
        /\ (mat = << << TRUE, FALSE >>, << FALSE, TRUE >> >>
              => out = << "█", "█", " ", " ", "\n", " ", " ", "█", "█", "\n" >>)

C6_Witness ==
    /\ results # << >>
    /\ mat = << << TRUE, FALSE >>, << FALSE, TRUE >> >>

-----------------------------------------------------------------------------
(* C7 *)

Rectangular(m) == \A i, j \in 1..Len(m) : Len(m[i]) = Len(m[j])

\* C7: for a rectangular matrix of R rows and C columns every returned text
\* holds exactly R line terminators, ends with one unless it is empty, has
\* exactly 2*C characters in front of each terminator since the previous one,
\* and every call on the same matrix returns the same text.
C7_LineShape ==
    Rectangular(mat) =>
        /\ \A n \in 1..Len(results) :
              LET out == results[n]
                  nl == { p \in 1..Len(out) : out[p] = "\n" }
              IN  /\ Cardinality(nl) = Len(mat)
                  /\ (out # << >> => out[Len(out)] = "\n")
                  /\ \A p \in nl :
                        LET before == { q \in nl : q < p }
                            prev == IF before = {} THEN 0
                                    ELSE CHOOSE q \in before : \A r \in before : r <= q
                        IN  p - prev - 1 = 2 * Len(mat[1])
        /\ \A a, b \in 1..Len(results) : results[a] = results[b]

C7_Witness ==
    /\ Len(results) = 2
    /\ Len(mat) = 2 /\ Len(mat[1]) = 2 /\ Len(mat[2]) = 2

-----------------------------------------------------------------------------
(* C8 and C9 *)

\* credentials that name a security standard and carry no password text
InvalidCredentials == args.sec # None /\ PswText(args) = << >>

\* the encoder's level for each ECC level of the command line
SelectedLevel ==
    [ Low |-> "QrCodeEcc::Low", Medium |-> "QrCodeEcc::Medium",
      Quartile |-> "QrCodeEcc::Quartile", High |-> "QrCodeEcc::High" ]

EncoderFailed == enc_calls # << >> /\ ~enc_calls[1].ok
EncoderSucceeded == enc_calls # << >> /\ enc_calls[1].ok

\* C8: nothing is written unless the build and the encoding have succeeded:
\* invalid credentials never reach the encoder and write nothing, a failed
\* encoding writes nothing, the encoder is called at most once, with the
\* descriptor and the selected level, and a run that succeeds has written the
\* rendered matrix exactly once.
C8_NoOutputOnFailure ==
    /\ Len(stdout) <= 1
    /\ Len(enc_calls) <= 1
    /\ (InvalidCredentials => enc_calls = << >> /\ stdout = << >>)
    /\ (enc_calls # << >> =>
            /\ enc_calls[1].text = qr_string
            /\ enc_calls[1].text = Descriptor(SecField(qr_string), args)
            /\ enc_calls[1].ecc = SelectedLevel[args.ecc])
    /\ (EncoderFailed => stdout = << >>)
    /\ (stdout # << >> =>
            /\ ~InvalidCredentials
            /\ EncoderSucceeded
            /\ stdout[1] = get_bool_matrix_as_string(qr_code))
    /\ (exit_code = << 0 >> => Len(stdout) = 1)

C8_Witness ==
    /\ exit_code = << 0 >>
    /\ stdout # << >> /\ stdout[1] # << >>
    /\ args.ecc = "High"

\* the status a run has once it has ended
C9_StatusWhenEnded ==
    /\ (pc = "exited") = (exit_code # None)
    /\ (pc = "exited" =>
            /\ (exit_code = << 0 >>) = (~InvalidCredentials /\ EncoderSucceeded)
            /\ (InvalidCredentials => exit_code[1] # 0)
            /\ (EncoderFailed => exit_code[1] # 0))
    /\ Len(enc_calls) <= 1

\* C9: every run ends; a run that has ended has a status, which is 0 exactly
\* when the build and the encoding both succeeded and is not 0 after a
\* validation failure or an encoder failure; the encoder is never called a
\* second time and a run that has ended stays ended with its status.
C9_ExitStatus ==
    /\ <>(pc = "exited")
    /\ [](C9_StatusWhenEnded)
    /\ [][pc = "exited" => (pc' = "exited" /\ exit_code' = exit_code
                             /\ enc_calls' = enc_calls /\ stdout' = stdout)]_vars

C9_Witness ==
    /\ pc = "exited"
    /\ EncoderFailed
    /\ exit_code # None /\ exit_code[1] # 0

-----------------------------------------------------------------------------
(* C10 *)

\* the security field assemble_qr_string resolves for credentials it accepts
ResolvedToken(a) ==
    IF a.sec # None THEN DisplayForm[a.sec[1]]
    ELSE IF PswText(a) # << >> THEN DisplayForm["Wpa2"] ELSE << >>

Accepted(a) == ~(a.sec # None /\ PswText(a) = << >>)

FieldsDiffer(a, b) ==
    \/ a.ssid # b.ssid
    \/ PswText(a) # PswText(b)
    \/ a.hidden # b.hidden
    \/ ResolvedToken(a) # ResolvedToken(b)

\* C10: the descriptor built for credentials with a non-empty name differs
\* from the descriptor of every other accepted credentials with a non-empty
\* name that differ from them in the name, the password text, the hidden flag
\* or the resolved security token.
C10_DescriptorsDistinct ==
    (pc = "encode" /\ args.ssid # << >>) =>
        \A b \in Args :
            (b.ecc = args.ecc /\ b.ssid # << >> /\ Accepted(b) /\ FieldsDiffer(args, b))
                => assemble_qr_string(b).value # qr_string

====
